---- MODULE Spec2Model ----
(***************************************************************************)
(* Model of the io_uring detector (src/src/main.rs; the copy in            *)
(* src/io_uring_detector/src/main.rs has the same probe and scanner).      *)
(*                                                                         *)
(* Strings are sequences of one-character strings, so that contains,       *)
(* split, trim and parse are computed the way the code computes them.      *)
(* Option<T> is a sequence of length at most one: <<>> is None and <<v>>   *)
(* is Some(v).                                                             *)
(***************************************************************************)
EXTENDS Integers, Sequences, FiniteSets, TLC

\* ------------------------------------------------------------------ bounds
MaxPid == 2            \* process ids are 1..MaxPid
MaxFd == 2             \* descriptor numbers of a scanned process are 1..MaxFd
MaxEnvSteps == 1       \* changes other processes make during one run
MaxProbeCalls == 4     \* probe() invocations of the repeated-probe specification
MaxBlobLen == 4        \* characters of a generated command-line blob
MaxNameLen == 3        \* characters of a generated /proc entry name

\* ------------------------------------------------------- program constants
ENOSYS == 38

Pids == 1..MaxPid
Fds == 1..MaxFd

None == <<>>
Some(v) == <<v>>

\* ----------------------------------------------------------- feature table
\* A u32 bitmask is held as the set of the positions of its 1 bits (0..31):
\* TLC's integers stop below 2^31.
\* 1 << n
Shl1(n) == {n}

\* a & b
BitAnd(a, b) == a \cap b

IO_URING_FEATURES ==
  << [mask |-> Shl1(0),  name |-> "IORING_FEAT_SINGLE_MMAP"],
     [mask |-> Shl1(1),  name |-> "IORING_FEAT_NODROP"],
     [mask |-> Shl1(2),  name |-> "IORING_FEAT_SUBMIT_STABLE"],
     [mask |-> Shl1(3),  name |-> "IORING_FEAT_RW_CUR_POS"],
     [mask |-> Shl1(4),  name |-> "IORING_FEAT_CUR_PERSONALITY"],
     [mask |-> Shl1(5),  name |-> "IORING_FEAT_FAST_POLL"],
     [mask |-> Shl1(6),  name |-> "IORING_FEAT_POLL_32BITS"],
     [mask |-> Shl1(7),  name |-> "IORING_FEAT_SQPOLL_NONFIXED"],
     [mask |-> Shl1(8),  name |-> "IORING_FEAT_ENTER_EXT_ARG"],
     [mask |-> Shl1(9),  name |-> "IORING_FEAT_REG_RW"],
     [mask |-> Shl1(10), name |-> "IORING_FEAT_SAFE_LINK"],
     [mask |-> Shl1(11), name |-> "IORING_FEAT_FAST_POLL_FULL"],
     [mask |-> Shl1(12), name |-> "IORING_FEAT_CQE_SKIP"] >>

\* the test compares the whole value with the mask
FeatureSetEq(features, mask) == features = mask

\* the test of one table entry in print_io_uring_features: (features & mask) != 0
FeatureSet(features, mask) == BitAnd(features, mask) # {}

\* the names print_io_uring_features prints for entries i.. of the table
RECURSIVE FeatureNamesFrom(_, _)
FeatureNamesFrom(features, i) ==
  IF i > Len(IO_URING_FEATURES) THEN <<>>
  ELSE (IF FeatureSet(features, IO_URING_FEATURES[i].mask)
          THEN <<IO_URING_FEATURES[i].name>> ELSE <<>>)
       \o FeatureNamesFrom(features, i + 1)

\* the lines print_io_uring_features writes after its heading
print_io_uring_features(features) ==
  LET names == FeatureNamesFrom(features, 1)
      found_features == Len(names) > 0
  IN  IF found_features THEN names ELSE <<"(no features reported)">>

\* ------------------------------------------------------------------ strings
Whitespace == {" ", "\t", "\n", "\r"}
Digits == <<"0", "1", "2", "3", "4", "5", "6", "7", "8", "9">>
NUL == "\\0"

\* str::contains
Contains(s, pat) ==
  \E i \in 0..(Len(s) - Len(pat)) : SubSeq(s, i + 1, i + Len(pat)) = pat

\* str::starts_with
StartsWith(s, pat) ==
  Len(s) >= Len(pat) /\ SubSeq(s, 1, Len(pat)) = pat

\* str::split(c): the fragments between occurrences of c, empty ones included
RECURSIVE SplitFrom(_, _, _, _)
SplitFrom(s, c, i, cur) ==
  IF i > Len(s) THEN <<cur>>
  ELSE IF s[i] = c THEN <<cur>> \o SplitFrom(s, c, i + 1, <<>>)
  ELSE SplitFrom(s, c, i + 1, Append(cur, s[i]))

Split(s, c) == SplitFrom(s, c, 1, <<>>)

\* no filter: every fragment is kept
FilterKeepAll(ss) == ss

\* Iterator::filter(|s| !s.is_empty())
RECURSIVE FilterNonEmpty(_)
FilterNonEmpty(ss) ==
  IF ss = <<>> THEN <<>>
  ELSE (IF Head(ss) = <<>> THEN <<>> ELSE <<Head(ss)>>) \o FilterNonEmpty(Tail(ss))

\* str::trim
RECURSIVE TrimStart(_)
TrimStart(s) ==
  IF s # <<>> /\ Head(s) \in Whitespace THEN TrimStart(Tail(s)) ELSE s

RECURSIVE TrimEnd(_)
TrimEnd(s) ==
  IF s # <<>> /\ s[Len(s)] \in Whitespace THEN TrimEnd(SubSeq(s, 1, Len(s) - 1)) ELSE s

Trim(s) == TrimEnd(TrimStart(s))

\* str::lines: split at "\n", no empty last line, a trailing "\r" of a line dropped
StripCr(l) ==
  IF l # <<>> /\ l[Len(l)] = "\r" THEN SubSeq(l, 1, Len(l) - 1) ELSE l

Lines(s) ==
  LET parts == Split(s, "\n")
      kept == IF parts[Len(parts)] = <<>> THEN SubSeq(parts, 1, Len(parts) - 1) ELSE parts
  IN  [i \in 1..Len(kept) |-> StripCr(kept[i])]

\* str::split_whitespace: the maximal runs of non-whitespace characters
RECURSIVE SplitWhitespaceFrom(_, _, _)
SplitWhitespaceFrom(s, i, cur) ==
  IF i > Len(s) THEN (IF cur = <<>> THEN <<>> ELSE <<cur>>)
  ELSE IF s[i] \in Whitespace
         THEN (IF cur = <<>> THEN <<>> ELSE <<cur>>) \o SplitWhitespaceFrom(s, i + 1, <<>>)
  ELSE SplitWhitespaceFrom(s, i + 1, Append(cur, s[i]))

SplitWhitespace(s) == SplitWhitespaceFrom(s, 1, <<>>)

IsDigit(c) == \E i \in 1..10 : Digits[i] = c

DigitValue(c) == (CHOOSE i \in 1..10 : Digits[i] = c) - 1

\* An unsigned integer read from text is held as its decimal digits without
\* leading zeros (u32 and u64 values do not fit TLC's integers).
RECURSIVE StripZeros(_)
StripZeros(s) ==
  IF Len(s) > 1 /\ Head(s) = "0" THEN StripZeros(Tail(s)) ELSE s

\* a <= b for two numbers held as digits
RECURSIVE DigitsLe(_, _)
DigitsLe(a, b) ==
  IF Len(a) # Len(b) THEN Len(a) < Len(b)
  ELSE IF a = <<>> THEN TRUE
  ELSE IF Head(a) # Head(b) THEN DigitValue(Head(a)) < DigitValue(Head(b))
  ELSE DigitsLe(Tail(a), Tail(b))

U32Max == <<"4", "2", "9", "4", "9", "6", "7", "2", "9", "5">>
U64Max == <<"1", "8", "4", "4", "6", "7", "4", "4", "0", "7",
            "3", "7", "0", "9", "5", "5", "1", "6", "1", "5">>

\* a parse that gives zero where str::parse gives an error
ParseUnsignedOrZero(s, max) ==
  LET body == IF s # <<>> /\ Head(s) = "+" THEN Tail(s) ELSE s
  IN  IF body = <<>> \/ \E i \in 1..Len(body) : ~IsDigit(body[i]) THEN Some(<<"0">>)
      ELSE IF ~DigitsLe(StripZeros(body), max) THEN Some(<<"0">>)
      ELSE Some(StripZeros(body))

\* str::parse for an unsigned integer type with the given largest value: an
\* optional "+", then one or more decimal digits, no overflow; else an error
ParseUnsigned(s, max) ==
  LET body == IF s # <<>> /\ Head(s) = "+" THEN Tail(s) ELSE s
  IN  IF body = <<>> \/ \E i \in 1..Len(body) : ~IsDigit(body[i]) THEN None
      ELSE IF ~DigitsLe(StripZeros(body), max) THEN None
      ELSE Some(StripZeros(body))

\* the integer a short digit string stands for
RECURSIVE DecimalValue(_)
DecimalValue(s) ==
  IF s = <<>> THEN 0
  ELSE 10 * DecimalValue(SubSeq(s, 1, Len(s) - 1)) + DigitValue(s[Len(s)])

\* Display of an unsigned integer (format!("{}", pid))
RECURSIVE FormatDecimal(_)
FormatDecimal(n) ==
  IF n < 10 THEN <<Digits[n + 1]>>
  ELSE Append(FormatDecimal(n \div 10), Digits[(n % 10) + 1])

\* ------------------------------------------------- per-process proc files
\* What the files of /proc/<pid> hold while process pid lives.  Odd pids run
\* from a memory-only file and have a command line; even pids do not.
URING_PATTERN ==
  <<"a", "n", "o", "n", "_", "i", "n", "o", "d", "e", ":",
    "[", "i", "o", "_", "u", "r", "i", "n", "g", "]">>

OtherTarget == <<"/", "d", "e", "v", "/", "n", "u", "l", "l">>

NoTarget == <<>>

Targets == {URING_PATTERN, OtherTarget}

CommText(p) == <<"p">> \o FormatDecimal(p) \o <<"\n">>

ExeLink(p) == <<"/", "b", "i", "n", "/", "p">> \o FormatDecimal(p)

CmdlineBlob(p) ==
  IF p % 2 = 1 THEN <<"p">> \o FormatDecimal(p) \o <<NUL, "-", "x", NUL>>
  ELSE <<>>

MapsText(p) ==
  IF p % 2 = 1
    THEN <<"0", "-", "1", " ", "/", "m", "e", "m", "f", "d", ":", "x", " ",
           "(", "d", "e", "l", "e", "t", "e", "d", ")", "\n">>
    ELSE <<"0", "-", "1", " ", "/", "b", "i", "n", "/", "p", "\n">>

StatusText(p) ==
  <<"N", "a", "m", "e", ":", "\t", "p", "\n",
    "V", "m", "S", "i", "z", "e", ":", "\t", " ", "2", "0", " ", "k", "B", "\n",
    "V", "m", "R", "S", "S", ":", "\t", " ">> \o FormatDecimal(p)
    \o <<" ", "k", "B", "\n">>

\* --------------------------------------------------------- get_process_info
\* no substitute for a name that cannot be read
UnknownNameEmpty == <<>>

\* unwrap_or_else(|| "<unknown>".to_string())
UNKNOWN_NAME == <<"<", "u", "n", "k", "n", "o", "w", "n", ">">>

MEMFD == <<"m", "e", "m", "f", "d", ":">>
ANON_INODE == <<"a", "n", "o", "n", "_", "i", "n", "o", "d", "e", ":">>
DELETED == <<"(", "d", "e", "l", "e", "t", "e", "d", ")">>
VMSIZE == <<"V", "m", "S", "i", "z", "e", ":">>
VMRSS == <<"V", "m", "R", "S", "S", ":">>

\* read_to_string(comm).ok().map(|s| s.trim().to_string())
get_process_name(comm) ==
  IF comm = None THEN None ELSE Some(Trim(comm[1]))

\* split('\0'), filter non-empty, collect; None when no argument is left
ParseCmdline(blob) ==
  LET args == FilterNonEmpty(Split(blob, NUL))
  IN  IF args # <<>> THEN Some(args) ELSE None

\* a search for two of the three markers only
HasMemfdOrAnonInode(maps) ==
  \E i \in 1..Len(Lines(maps)) :
     \/ Contains(Lines(maps)[i], MEMFD)
     \/ Contains(Lines(maps)[i], ANON_INODE)

\* maps.lines().any(|line| line contains one of the three markers)
HasMemoryMappedFiles(maps) ==
  \E i \in 1..Len(Lines(maps)) :
     \/ Contains(Lines(maps)[i], MEMFD)
     \/ Contains(Lines(maps)[i], ANON_INODE)
     \/ Contains(Lines(maps)[i], DELETED)

DefaultMemoryInfo == [virtual_memory |-> None, resident_memory |-> None]

\* one pass of the loop over the lines of the status text
StatusLine(memory_info, line) ==
  LET words == SplitWhitespace(line)
  IN  IF StartsWith(line, VMSIZE)
        THEN (IF Len(words) >= 2
                THEN [memory_info EXCEPT !.virtual_memory = ParseUnsigned(words[2], U64Max)]
                ELSE memory_info)
      ELSE IF StartsWith(line, VMRSS)
        THEN (IF Len(words) >= 2
                THEN [memory_info EXCEPT !.resident_memory = ParseUnsigned(words[2], U64Max)]
                ELSE memory_info)
      ELSE memory_info

RECURSIVE StatusLines(_, _, _)
StatusLines(memory_info, lines, i) ==
  IF i > Len(lines) THEN memory_info
  ELSE StatusLines(StatusLine(memory_info, lines[i]), lines, i + 1)

ParseStatus(status) == StatusLines(DefaultMemoryInfo, Lines(status), 1)

\* reads: what each of the five reads returned, None for a failed read
get_process_info(reads) ==
  [ name          |-> IF get_process_name(reads.comm) = None THEN UNKNOWN_NAME
                      ELSE get_process_name(reads.comm)[1],
    exe_path      |-> reads.exe,
    cmdline       |-> IF reads.cmdline = None THEN None
                      ELSE ParseCmdline(reads.cmdline[1]),
    is_in_memory  |-> IF reads.maps = None THEN FALSE
                      ELSE HasMemoryMappedFiles(reads.maps[1]),
    memory_status |-> IF reads.maps = None THEN None
                      ELSE IF reads.status = None THEN None
                      ELSE Some(ParseStatus(reads.status[1])) ]

NoReads == [comm |-> None, exe |-> None, cmdline |-> None, maps |-> None, status |-> None]

NoInfo ==
  [name |-> <<>>, exe_path |-> None, cmdline |-> None,
   is_in_memory |-> FALSE, memory_status |-> None]

\* -------------------------------------------------------------------- state
VARIABLES
  pc,           \* where the detector is
  alive,        \* alive[p]: process p exists
  readable,     \* readable[p]: the detector may read /proc/p/fd and below
  fdTable,      \* fdTable[p][f]: link target of descriptor f of p, NoTarget if closed
  procfsUp,     \* read_dir("/proc") can succeed
  envSteps,     \* changes of the other processes so far
  touched,      \* the processes those changes were about
  procTable,    \* the names /proc lists, in the order the iterator yields them
  ret,          \* return value of the io_uring_setup call
  errno,        \* last OS error
  params,       \* params.features as the kernel left it
  openHandles,  \* descriptors the detector holds beyond its standard streams
  setupCalls,   \* io_uring_setup calls issued
  probeResult,  \* what detect_io_uring_support returned
  featOut,      \* lines written by print_io_uring_features
  scanCalls,    \* calls of check_io_uring_usage
  procPos,      \* position of the /proc iterator in procTable
  curPid,       \* pid of the current iteration
  fdPos,        \* position of the fd-directory iterator
  curFd,        \* fd_entry of the current iteration
  reads,        \* results of the reads of get_process_info
  info,         \* the ProcessInfo being reported
  found,
  reported,     \* the "Process using io_uring" blocks written: pid and io_uring FD
  enumerated,   \* the pids the outer loop body ran for, in order
  skipped,      \* the pids whose fd directory could not be listed
  linkFailed,   \* the <<pid, fd>> whose link could not be resolved
  failed,       \* other reads that failed: "entry", "fd_entry", "meta"
  noneMsg,      \* "No active process ..." was written
  scanResult,   \* what check_io_uring_usage returned
  mainResult    \* what main returned

envVars == <<alive, readable, fdTable, procfsUp, envSteps, touched, procTable>>
probeVars == <<ret, errno, params, openHandles, setupCalls, probeResult>>
scanVars == <<procPos, curPid, fdPos, curFd, reads, info, found, reported,
              enumerated, skipped, linkFailed, failed, noneMsg, scanResult>>
vars == <<pc, envVars, probeVars, featOut, scanCalls, scanVars, mainResult>>

\* --------------------------------------------------------------- input sets
ErrCodes == {1, 12, ENOSYS}           \* EPERM, ENOMEM, ENOSYS
FeatureMasks == {{}, {0, 2, 13}}       \* 0, and 0b101 with a bit outside the table
ProcRootErrors == {2, 13}              \* ENOENT, EACCES: /proc cannot be listed

\* the names in /proc in the order the directory iterator yields them
NonPidEntries == << <<"s", "e", "l", "f">> >>

ProcTable == NonPidEntries \o [i \in 1..MaxPid |-> FormatDecimal(i)]

\* the entry of a process is listed while the process lives
EntryExists(i) ==
  \A p \in Pids : procTable[i] = FormatDecimal(p) => alive[p]

ClosedTable == [f \in Fds |-> NoTarget]

FdTables == [Fds -> Targets \cup {NoTarget}]

Pending == [tag |-> "Pending", features |-> {}, code |-> 0]
ResSome(f) == [tag |-> "Some", features |-> f, code |-> 0]
ResNone == [tag |-> "None", features |-> {}, code |-> 0]
ResErr(c) == [tag |-> "Err", features |-> {}, code |-> c]
ResOk == [tag |-> "Ok", features |-> {}, code |-> 0]

ScanInit ==
  /\ procPos = 0
  /\ curPid = 0
  /\ fdPos = 0
  /\ curFd = 0
  /\ reads = NoReads
  /\ info = NoInfo
  /\ found = FALSE
  /\ reported = <<>>
  /\ enumerated = <<>>
  /\ skipped = {}
  /\ linkFailed = {}
  /\ failed = {}
  /\ noneMsg = FALSE
  /\ scanResult = Pending

\* a dead process has no descriptors
EnvInit ==
  /\ alive \in [Pids -> BOOLEAN]
  /\ readable \in [Pids -> BOOLEAN]
  /\ fdTable \in [Pids -> FdTables]
  /\ \A p \in Pids : ~alive[p] => readable[p] /\ fdTable[p] = ClosedTable
  /\ procfsUp \in BOOLEAN
  /\ envSteps = 0
  /\ touched = {}
  /\ procTable = ProcTable

ProbeInit ==
  /\ ret = 0
  /\ errno = 0
  /\ params = {}
  /\ openHandles = {}
  /\ setupCalls = 0
  /\ probeResult = Pending

Init ==
  /\ pc = "uname"
  /\ EnvInit
  /\ ProbeInit
  /\ featOut = <<>>
  /\ scanCalls = 0
  /\ ScanInit
  /\ mainResult = Pending

\* ---------------------------------------------------------------------- main
\* uname(2) fails only for a bad buffer address, which nix never passes
MainUname ==
  /\ pc = "uname"
  /\ pc' = "probe_call"
  /\ UNCHANGED <<envVars, probeVars, featOut, scanCalls, scanVars, mainResult>>

\* the lowest descriptor number the kernel can hand out
LowestFree ==
  CHOOSE h \in 3..(3 + Cardinality(openHandles)) :
    h \notin openHandles /\ \A k \in 3..(h - 1) : k \in openHandles

\* detect_io_uring_support up to the return of the system call
ProbeCall ==
  /\ pc = "probe_call"
  /\ setupCalls' = setupCalls + 1
  /\ \E f \in FeatureMasks :
       /\ params' = f
       /\ \/ /\ ret' = LowestFree
             /\ openHandles' = openHandles \cup {LowestFree}
             /\ errno' = errno
          \/ /\ ret' = -1
             /\ openHandles' = openHandles
             /\ errno' \in ErrCodes
  /\ pc' = "probe_ret"
  /\ UNCHANGED <<envVars, probeResult, featOut, scanCalls, scanVars, mainResult>>

\* the handle is never released
CloseLeak(handles, fd) == handles

\* libc::close
Close(handles, fd) == handles \ {fd}

\* ENOSYS is reported like any other error
ProbeOutcomeNoEnosys(r, e, prm) ==
  IF r >= 0 THEN ResSome(prm) ELSE ResErr(e)

\* every failure counts as "not supported"
ProbeOutcomeSwallow(r, e, prm) ==
  IF r >= 0 THEN ResSome(prm) ELSE ResNone

\* the value detect_io_uring_support returns
ProbeOutcome(r, e, prm) ==
  IF r >= 0 THEN ResSome(prm)
  ELSE IF e = ENOSYS THEN ResNone
  ELSE ResErr(e)

\* detect_io_uring_support from the test of ret to its return
ProbeReturn ==
  /\ pc = "probe_ret"
  /\ openHandles' = IF ret >= 0 THEN Close(openHandles, ret) ELSE openHandles
  /\ probeResult' = ProbeOutcome(ret, errno, params)
  /\ pc' = "probe_done"
  /\ UNCHANGED <<envVars, ret, errno, params, setupCalls, featOut, scanCalls, scanVars,
                 mainResult>>

\* the None arm falls through to the scan
MatchTargetFallThrough(tag) ==
  IF tag \in {"Some", "None"} THEN "features" ELSE "done"

\* the match is evaluated over and over
MatchTargetSpin(tag) == "probe_done"

\* main: where the match on detect_io_uring_support()? goes
MatchTarget(tag) ==
  IF tag = "Some" THEN "features" ELSE "done"

\* main: what main returns from the match, Pending if it goes on
MatchReturn(result) ==
  IF result.tag = "Some" THEN Pending
  ELSE IF result.tag = "None" THEN ResOk
  ELSE result

\* main: match detect_io_uring_support()? { Some => .., None => return Ok(()) }
MainMatch ==
  /\ pc = "probe_done"
  /\ pc' = MatchTarget(probeResult.tag)
  /\ mainResult' = MatchReturn(probeResult)
  /\ UNCHANGED <<envVars, probeVars, featOut, scanCalls, scanVars>>

\* main: print_io_uring_features(&params)
PrintFeatures ==
  /\ pc = "features"
  /\ featOut' = print_io_uring_features(probeResult.features)
  /\ pc' = "scan_call"
  /\ UNCHANGED <<envVars, probeVars, scanCalls, scanVars, mainResult>>

\* a failed read_dir("/proc") is taken for an empty listing
ReadDirProcIgnored == TRUE

\* read_dir("/proc") succeeds
ReadDirProc == procfsUp

\* main: check_io_uring_usage()?  --  the call, up to read_dir("/proc")?
ScanOpen ==
  /\ pc = "scan_call"
  /\ scanCalls' = scanCalls + 1
  /\ IF ReadDirProc
       THEN /\ pc' = "proc_next"
            /\ scanResult' = scanResult
       ELSE /\ pc' = "scan_ret"
            /\ \E e \in ProcRootErrors : scanResult' = ResErr(e)
  /\ UNCHANGED <<envVars, probeVars, featOut, procPos, curPid, fdPos, curFd, reads, info,
                 found, reported, enumerated, skipped, linkFailed, failed, noneMsg,
                 mainResult>>

\* main: the ? on the scan's result, and Ok(())
MainAfterScan ==
  /\ pc = "scan_ret"
  /\ mainResult' = IF scanResult.tag = "Err" THEN scanResult ELSE ResOk
  /\ pc' = "done"
  /\ UNCHANGED <<envVars, probeVars, featOut, scanCalls, scanVars>>

\* ---------------------------------------------------------------------- scan
\* the entries of procTable after position i that exist now
EntriesAfter(i) == {j \in (i + 1)..Len(procTable) : EntryExists(j)}

NextEntry(i) == CHOOSE j \in EntriesAfter(i) : \A k \in EntriesAfter(i) : j <= k

\* entry.file_name().to_string_lossy().parse::<u32>()
ParsePid(name) == ParseUnsigned(name, U32Max)

\* for entry in proc_entries.flatten(): one step of the iterator and the parse.
\* The iterator is lazy: it yields the next entry that exists now, an error
\* item (dropped by flatten; the iterator is then at its end), or ends.
ProcNext ==
  /\ pc = "proc_next"
  /\ \/ /\ EntriesAfter(procPos) # {}
        /\ LET j == NextEntry(procPos)
               pid == ParsePid(procTable[j])
           IN  /\ procPos' = j
               /\ IF pid # None
                    THEN /\ curPid' = DecimalValue(pid[1])
                         /\ enumerated' = Append(enumerated, DecimalValue(pid[1]))
                         /\ pc' = "fd_open"
                    ELSE /\ curPid' = curPid
                         /\ enumerated' = enumerated
                         /\ pc' = "proc_next"
        /\ failed' = failed
     \/ /\ EntriesAfter(procPos) = {}
        /\ pc' = "scan_end"
        /\ UNCHANGED <<procPos, curPid, enumerated, failed>>
     \/ /\ failed' = failed \cup {"entry"}
        /\ pc' = "scan_end"
        /\ UNCHANGED <<procPos, curPid, enumerated>>
  /\ UNCHANGED <<envVars, probeVars, featOut, scanCalls, fdPos, curFd, reads, info,
                 found, reported, skipped, linkFailed, noneMsg, scanResult, mainResult>>

\* if let Ok(fds) = read_dir(format!("/proc/{}/fd", pid))
\* a failed listing ends the outer loop
SkipProcessAbort == "scan_end"

\* where control goes when the fd directory cannot be listed: the next process
SkipProcess == "proc_next"

\* the directory of a number that is no process cannot be listed
FdOpen ==
  /\ pc = "fd_open"
  /\ IF curPid \in Pids /\ alive[curPid] /\ readable[curPid]
       THEN /\ pc' = "fd_next"
            /\ fdPos' = 0
            /\ skipped' = skipped
       ELSE /\ pc' = SkipProcess
            /\ fdPos' = fdPos
            /\ skipped' = skipped \cup {curPid}
  /\ UNCHANGED <<envVars, probeVars, featOut, scanCalls, procPos, curPid, curFd, reads,
                 info, found, reported, enumerated, linkFailed, failed, noneMsg,
                 scanResult, mainResult>>

OpenFdsAfter(p, i) == {f \in Fds : f > i /\ fdTable[p][f] # NoTarget}

\* for fd_entry in fds.flatten(): one step of the iterator, in descriptor order
\* over the descriptors open now; it fails once the process is gone
FdNext ==
  /\ pc = "fd_next"
  /\ IF ~alive[curPid]
       THEN /\ pc' = "proc_next"
            /\ failed' = failed \cup {"fd_entry"}
            /\ UNCHANGED <<fdPos, curFd>>
       ELSE IF OpenFdsAfter(curPid, fdPos) = {}
         THEN /\ pc' = "proc_next"
              /\ UNCHANGED <<fdPos, curFd, failed>>
         ELSE LET f == CHOOSE g \in OpenFdsAfter(curPid, fdPos) :
                          \A h \in OpenFdsAfter(curPid, fdPos) : g <= h
              IN  /\ fdPos' = f
                  /\ curFd' = f
                  /\ pc' = "read_link"
                  /\ failed' = failed
  /\ UNCHANGED <<envVars, probeVars, featOut, scanCalls, procPos, curPid, reads, info,
                 found, reported, enumerated, skipped, linkFailed, noneMsg, scanResult,
                 mainResult>>

\* read_link(fd_entry.path()): None when the link cannot be resolved
read_link(p, f) ==
  IF alive[p] /\ readable[p] /\ fdTable[p][f] # NoTarget
    THEN Some(fdTable[p][f]) ELSE None

\* where control goes when a link cannot be resolved: the next descriptor
SkipDescriptor == "fd_next"

\* link_target.to_string_lossy().contains("anon_inode:[io_uring]")
IsUring(link_target) == Contains(link_target, URING_PATTERN)

\* if let Ok(link_target) = read_link(..) { if link_target contains the pattern
ReadLink ==
  /\ pc = "read_link"
  /\ LET link_target == read_link(curPid, curFd)
     IN  IF link_target = None
           THEN /\ pc' = SkipDescriptor
                /\ linkFailed' = linkFailed \cup {<<curPid, curFd>>}
           ELSE /\ pc' = IF IsUring(link_target[1]) THEN "get_info" ELSE "fd_next"
                /\ linkFailed' = linkFailed
  /\ UNCHANGED <<envVars, probeVars, featOut, scanCalls, procPos, curPid, fdPos, curFd,
                 reads, info, found, reported, enumerated, skipped, failed, noneMsg,
                 scanResult, mainResult>>

Files == {"comm", "exe", "cmdline", "maps", "status"}

FileContent(p, file) ==
  CASE file = "comm" -> CommText(p)
    [] file = "exe" -> ExeLink(p)
    [] file = "cmdline" -> CmdlineBlob(p)
    [] file = "maps" -> MapsText(p)
    [] file = "status" -> StatusText(p)

\* let info = get_process_info(pid): each of the five reads fails if the
\* process is gone, and may fail (permission, exit in between) if it lives
GetInfo ==
  /\ pc = "get_info"
  /\ \E ok \in [Files -> BOOLEAN] :
       /\ ~alive[curPid] => \A file \in Files : ~ok[file]
       /\ reads' = [file \in Files |->
                      IF ok[file] THEN Some(FileContent(curPid, file)) ELSE None]
       /\ failed' = IF \E file \in Files : ~ok[file] THEN failed \cup {"meta"} ELSE failed
  /\ info' = get_process_info(reads')
  /\ pc' = "report"
  /\ UNCHANGED <<envVars, probeVars, featOut, scanCalls, procPos, curPid, fdPos, curFd,
                 found, reported, enumerated, skipped, linkFailed, noneMsg, scanResult,
                 mainResult>>

\* no break: the fd loop goes on after a match
AfterMatchNoBreak == "fd_next"

\* where control goes after a match is reported: break leaves the fd loop
AfterMatch == "proc_next"

\* the println! block of a match, found = true, break
Report ==
  /\ pc = "report"
  /\ reported' = Append(reported, [pid |-> curPid, fd |-> curFd])
  /\ found' = TRUE
  /\ reads' = NoReads
  /\ info' = NoInfo
  /\ pc' = AfterMatch
  /\ UNCHANGED <<envVars, probeVars, featOut, scanCalls, procPos, curPid, fdPos, curFd,
                 enumerated, skipped, linkFailed, failed, noneMsg, scanResult, mainResult>>

\* if !found { println!(..) }  Ok(())
ScanEnd ==
  /\ pc = "scan_end"
  /\ noneMsg' = ~found
  /\ scanResult' = ResOk
  /\ pc' = "scan_ret"
  /\ UNCHANGED <<envVars, probeVars, featOut, scanCalls, procPos, curPid, fdPos, curFd,
                 reads, info, found, reported, enumerated, skipped, linkFailed, failed,
                 mainResult>>

\* ------------------------------------------------------- the other processes
Scanning == pc \in {"proc_next", "fd_open", "fd_next", "read_link", "get_info"}

EnvStep(p) ==
  /\ Scanning
  /\ envSteps < MaxEnvSteps
  /\ envSteps' = envSteps + 1
  /\ touched' = touched \cup {p}
  /\ UNCHANGED <<pc, procfsUp, procTable, probeVars, featOut, scanCalls, scanVars,
                 mainResult>>

ProcExit(p) ==
  /\ alive[p]
  /\ alive' = [alive EXCEPT ![p] = FALSE]
  /\ readable' = [readable EXCEPT ![p] = TRUE]
  /\ fdTable' = [fdTable EXCEPT ![p] = ClosedTable]
  /\ EnvStep(p)

ProcSpawn(p) ==
  /\ ~alive[p]
  /\ alive' = [alive EXCEPT ![p] = TRUE]
  /\ \E t \in FdTables : fdTable' = [fdTable EXCEPT ![p] = t]
  /\ \E r \in BOOLEAN : readable' = [readable EXCEPT ![p] = r]
  /\ EnvStep(p)

FdClose(p, f) ==
  /\ alive[p]
  /\ fdTable[p][f] # NoTarget
  /\ fdTable' = [fdTable EXCEPT ![p][f] = NoTarget]
  /\ UNCHANGED <<alive, readable>>
  /\ EnvStep(p)

FdOpenBy(p, f) ==
  /\ alive[p]
  /\ fdTable[p][f] = NoTarget
  /\ \E t \in Targets : fdTable' = [fdTable EXCEPT ![p][f] = t]
  /\ UNCHANGED <<alive, readable>>
  /\ EnvStep(p)

SetReadable(p) ==
  /\ alive[p]
  /\ readable' = [readable EXCEPT ![p] = ~readable[p]]
  /\ UNCHANGED <<alive, fdTable>>
  /\ EnvStep(p)

Env ==
  \E p \in Pids :
    \/ ProcExit(p)
    \/ ProcSpawn(p)
    \/ SetReadable(p)
    \/ \E f \in Fds : FdClose(p, f) \/ FdOpenBy(p, f)

Detector ==
  \/ MainUname \/ ProbeCall \/ ProbeReturn \/ MainMatch \/ PrintFeatures
  \/ ScanOpen \/ ProcNext \/ FdOpen \/ FdNext \/ ReadLink \/ GetInfo \/ Report
  \/ ScanEnd \/ MainAfterScan

Next == Detector \/ Env

Spec == Init /\ [][Next]_vars

\* The detector is one running thread: it takes its next step whenever it has
\* one.  Nothing is assumed of the other processes.
FairSpec == Spec /\ WF_vars(Detector)

\* ------------------------------- the detector with the other processes at rest
\* every process lives and holds /dev/null and, at its highest descriptor, an
\* io_uring instance or nothing
QuietTables ==
  { [f \in Fds |-> IF f = MaxFd THEN t ELSE OtherTarget] : t \in {URING_PATTERN, NoTarget} }

InitMain ==
  /\ pc = "uname"
  /\ alive = [p \in Pids |-> TRUE]
  /\ readable \in [Pids -> BOOLEAN]
  /\ fdTable \in [Pids -> QuietTables]
  /\ procfsUp \in BOOLEAN
  /\ envSteps = 0
  /\ touched = {}
  /\ procTable = ProcTable
  /\ ProbeInit
  /\ featOut = <<>>
  /\ scanCalls = 0
  /\ ScanInit
  /\ mainResult = Pending

NextMain == Detector

SpecMain == InitMain /\ [][NextMain]_vars

\* --------------------------------------------- the probe called repeatedly
\* a caller that invokes detect_io_uring_support again after it returned
ProbeAgain ==
  /\ pc = "probe_done"
  /\ setupCalls < MaxProbeCalls
  /\ probeResult' = Pending
  /\ pc' = "probe_call"
  /\ UNCHANGED <<envVars, ret, errno, params, openHandles, setupCalls, featOut, scanCalls,
                 scanVars, mainResult>>

InitProbe ==
  /\ pc = "probe_call"
  /\ EnvInit
  /\ \A p \in Pids : ~alive[p]
  /\ procfsUp
  /\ ProbeInit
  /\ featOut = <<>>
  /\ scanCalls = 0
  /\ ScanInit
  /\ mainResult = Pending

NextProbe == ProbeCall \/ ProbeReturn \/ ProbeAgain

SpecProbe == InitProbe /\ [][NextProbe]_vars

\* ------------------------------------- print_io_uring_features on its own
DescribeBits == {0, 1, 2, 11, 12, 13, 31}

DescribeMasks == SUBSET DescribeBits

InitDescribe ==
  /\ pc = "features"
  /\ EnvInit
  /\ \A p \in Pids : ~alive[p]
  /\ procfsUp
  /\ ret = 3
  /\ errno = 0
  /\ params \in DescribeMasks
  /\ openHandles = {}
  /\ setupCalls = 1
  /\ probeResult = ResSome(params)
  /\ featOut = <<>>
  /\ scanCalls = 0
  /\ ScanInit
  /\ mainResult = Pending

NextDescribe == PrintFeatures

SpecDescribe == InitDescribe /\ [][NextDescribe]_vars

\* ------------------------------------------------ get_process_info on its own
\* get_process_info applied to given results of its five reads
ExtractInfo ==
  /\ pc = "extract"
  /\ info' = get_process_info(reads)
  /\ pc' = "report"
  /\ UNCHANGED <<envVars, probeVars, featOut, scanCalls, procPos, curPid, fdPos, curFd,
                 reads, found, reported, enumerated, skipped, linkFailed, failed, noneMsg,
                 scanResult, mainResult>>

\* the state get_process_info is called in, apart from what the reads return
InfoCall ==
  /\ pc = "extract"
  /\ alive = [p \in Pids |-> TRUE]
  /\ readable = [p \in Pids |-> TRUE]
  /\ fdTable = [p \in Pids |-> [f \in Fds |-> URING_PATTERN]]
  /\ procfsUp = TRUE
  /\ envSteps = 0
  /\ touched = {}
  /\ procTable = ProcTable
  /\ ret = 3
  /\ errno = 0
  /\ params = {}
  /\ openHandles = {}
  /\ setupCalls = 1
  /\ probeResult = ResSome({})
  /\ featOut = <<"(no features reported)">>
  /\ scanCalls = 1
  /\ procPos = Len(NonPidEntries) + 1
  /\ curPid = 1
  /\ fdPos = 1
  /\ curFd = 1
  /\ info = NoInfo
  /\ found = FALSE
  /\ reported = <<>>
  /\ enumerated = <<1>>
  /\ skipped = {}
  /\ linkFailed = {}
  /\ failed = {}
  /\ noneMsg = FALSE
  /\ scanResult = Pending
  /\ mainResult = Pending

\* command-line blobs: every text of up to MaxBlobLen characters over two
\* letters and the null byte, and "foo\0bar\0"
CmdChars == {"f", "b", NUL}

FooBarBlob == <<"f", "o", "o", NUL, "b", "a", "r", NUL>>

CmdlineBlobs ==
  UNION {[1..n -> CmdChars] : n \in 0..MaxBlobLen} \cup {FooBarBlob}

CmdlineReads ==
  {NoReads} \cup {[NoReads EXCEPT !.cmdline = Some(b)] : b \in CmdlineBlobs}

\* status texts: a Name line or none, then a VmSize line and a VmRSS line in
\* either order, each of them well formed, malformed or missing
NameLine == <<"N", "a", "m", "e", ":", "\t", "p", "\n">>

RssLines ==
  { <<>>,
    <<"V", "m", "R", "S", "S", ":", " ", " ", " ", " ", "1", "2", "3", "4", " ", "k", "B", "\n">>,
    <<"V", "m", "R", "S", "S", ":", "\t", "0", " ", "k", "B", "\n">>,
    <<"V", "m", "R", "S", "S", ":", "\t", "a", "b", "c", " ", "k", "B", "\n">>,
    <<"V", "m", "R", "S", "S", ":", "\t", "1", "2", "x", "4", " ", "k", "B", "\n">>,
    <<"V", "m", "R", "S", "S", ":", "\t", "-", "5", " ", "k", "B", "\n">>,
    <<"V", "m", "R", "S", "S", ":", "\n">> }

SizeLines ==
  { <<>>,
    <<"V", "m", "S", "i", "z", "e", ":", " ", " ", " ", " ", "1", "2", "3", "4", " ", "k", "B", "\n">>,
    <<"V", "m", "S", "i", "z", "e", ":", "\t", "n", "/", "a", " ", "k", "B", "\n">>,
    <<"V", "m", "S", "i", "z", "e", ":", "\n">> }

StatusTextOf(head, first, second) == head \o first \o second

StatusTexts ==
  { StatusTextOf(h, a, b) : h \in {<<>>, NameLine}, a \in RssLines, b \in SizeLines }
    \cup { StatusTextOf(h, b, a) : h \in {<<>>, NameLine}, a \in RssLines, b \in SizeLines }

\* the status text is read only where the mapping text was read
StatusReads ==
  { [NoReads EXCEPT !.maps = Some(<<>>), !.status = Some(t)] : t \in StatusTexts }

\* mapping texts: up to two lines, each with one marker or more, or with
\* none: an ordinary file, a marker cut short, a marker broken over two lines
MarkedLines ==
  { <<"0", "-", "1", " ", "/", "m", "e", "m", "f", "d", ":", "x", " ", "(", "d", "e", "l", "e", "t", "e", "d", ")", "\n">>,
    <<"0", "-", "1", " ", "/", "m", "e", "m", "f", "d", ":", "x", "\n">>,
    <<"0", "-", "1", " ", "a", "n", "o", "n", "_", "i", "n", "o", "d", "e", ":", "[", "i", "o", "_", "u", "r", "i", "n", "g", "]", "\n">>,
    <<"0", "-", "1", " ", "/", "t", "m", "p", "/", "f", " ", "(", "d", "e", "l", "e", "t", "e", "d", ")", "\n">> }

PlainLines ==
  { <<>>,
    <<"0", "-", "1", " ", "/", "b", "i", "n", "/", "p", "\n">>,
    <<"0", "-", "1", " ", "/", "m", "e", "m", "f", "d", "\n">>,
    <<"0", "-", "1", " ", "a", "n", "o", "n", "_", "i", "n", "o", "d", "e", "\n">>,
    <<"0", "-", "1", " ", "(", "d", "e", "l", "e", "t", "e", "d", "\n">>,
    <<"0", "-", "1", " ", "/", "m", "e", "m", "\n">>,
    <<"f", "d", ":", "x", "\n">> }

MapsTextOf(first, second) == first \o second

MapsTexts ==
  { MapsTextOf(a, b) : a \in MarkedLines \cup PlainLines, b \in MarkedLines \cup PlainLines }

MapsReads ==
  { [NoReads EXCEPT !.maps = Some(t)] : t \in MapsTexts }

InitInfo ==
  /\ InfoCall
  /\ reads \in CmdlineReads \cup StatusReads \cup MapsReads

NextInfo == ExtractInfo

SpecInfo == InitInfo /\ [][NextInfo]_vars

\* ------------------------------------------- the loop over /proc on its own
\* /proc entry names: every text of up to MaxNameLen characters over two
\* digits, a sign and a letter
EntryChars == {"0", "1", "+", "s"}

EntryNames == UNION {[1..n -> EntryChars] : n \in 1..MaxNameLen}

\* check_io_uring_usage has listed /proc, which holds one entry
InitListing ==
  /\ pc = "proc_next"
  /\ alive = [p \in Pids |-> TRUE]
  /\ readable = [p \in Pids |-> TRUE]
  /\ fdTable = [p \in Pids |-> ClosedTable]
  /\ procfsUp = TRUE
  /\ envSteps = 0
  /\ touched = {}
  /\ procTable \in {<<n>> : n \in EntryNames}
  /\ ret = 3
  /\ errno = 0
  /\ params = {}
  /\ openHandles = {}
  /\ setupCalls = 1
  /\ probeResult = ResSome({})
  /\ featOut = <<"(no features reported)">>
  /\ scanCalls = 1
  /\ ScanInit
  /\ mainResult = Pending

NextListing == ProcNext \/ FdOpen

SpecListing == InitListing /\ [][NextListing]_vars

\* ================================================================== claims
ProbeReturned == pc \notin {"uname", "probe_call", "probe_ret"}

\* C1: when io_uring_setup returns a negative value and the last error is
\* ENOSYS, detect_io_uring_support returns None (Unsupported): not an error,
\* and no feature value, whatever the kernel left in params.
C1_EnosysIsUnsupported ==
  (ProbeReturned /\ ret < 0 /\ errno = ENOSYS) =>
     (probeResult = ResNone /\ probeResult.tag # "Err" /\ probeResult.features = {})

C1_Witness ==
  pc = "probe_done" /\ ret < 0 /\ errno = ENOSYS /\ params # {} /\ setupCalls > 1

\* C2: after every return of detect_io_uring_support, whatever its outcome and
\* however often it was called, the detector holds no handle from the probe;
\* a handle the call returned has been closed by then.
C2_NoHandleLeft ==
  pc = "probe_done" => openHandles = {}

C2_Witness ==
  /\ pc = "probe_done"
  /\ setupCalls = MaxProbeCalls
  /\ probeResult.tag = "Some"
  /\ ret >= 0
  /\ errno # 0

\* C3: when io_uring_setup fails with a code other than ENOSYS, the probe
\* returns Err with that code after a single call, main returns that error
\* and check_io_uring_usage is never called.
C3_ProbeErrorPropagates ==
  (ProbeReturned /\ ret < 0 /\ errno # ENOSYS) =>
     /\ probeResult = ResErr(errno)
     /\ setupCalls = 1
     /\ scanCalls = 0
     /\ pc = "done" => mainResult = ResErr(errno)

C3_Witness ==
  pc = "done" /\ ret < 0 /\ errno # ENOSYS /\ params # {}

\* C4: check_io_uring_usage is called at most once and only after the probe
\* returned Some (Supported); when the probe returns None the scan is never
\* called, main returns Ok and nothing is reported.
C4_ScanOnlyWhenSupported ==
  /\ scanCalls <= 1
  /\ (scanCalls > 0 \/ pc \in {"features", "scan_call"}) => probeResult.tag = "Some"
  /\ (ProbeReturned /\ probeResult.tag = "None") =>
        /\ scanCalls = 0
        /\ reported = <<>>
        /\ scanResult = Pending
        /\ pc \in {"probe_done", "done"}
        /\ pc = "done" => mainResult = ResOk

C4_Witness ==
  /\ pc = "done"
  /\ probeResult.tag = "None"
  /\ \E p \in Pids : alive[p] /\ readable[p] /\ fdTable[p][MaxFd] = URING_PATTERN

\* C5: print_io_uring_features writes exactly the names of the table entries
\* whose bit is set in the mask, in table order; bits outside the table add
\* nothing; when no table bit is set (mask 0 included) it writes the single
\* line "(no features reported)", which differs from having written nothing.
SetEntries(m) == {i \in 1..Len(IO_URING_FEATURES) : IO_URING_FEATURES[i].mask \subseteq m}

C5_DescribeIsTableOrder ==
  pc = "scan_call" =>
    LET hits == SetEntries(probeResult.features)
    IN  IF hits = {}
          THEN featOut = <<"(no features reported)">>
          ELSE /\ Len(featOut) = Cardinality(hits)
               /\ \A i \in hits :
                    featOut[Cardinality({j \in hits : j <= i})] = IO_URING_FEATURES[i].name

C5_Witness ==
  /\ pc = "scan_call"
  /\ probeResult.features = {0, 2, 13, 31}
  /\ featOut = <<"IORING_FEAT_SINGLE_MMAP", "IORING_FEAT_SUBMIT_STABLE">>
ScanOver == pc \in {"scan_end", "scan_ret", "done"} /\ scanCalls = 1 /\ procfsUp

ScanReturned == pc \in {"scan_ret", "done"} /\ scanCalls = 1

ReportedPids == {reported[i].pid : i \in 1..Len(reported)}

EnumeratedPids == {enumerated[i] : i \in 1..Len(enumerated)}

TimesReported(p) == Cardinality({i \in 1..Len(reported) : reported[i].pid = p})

\* C6: a process whose fd directory cannot be listed (it exited or is not
\* readable) and a descriptor whose link cannot be resolved are skipped: the
\* scan goes on with the next process, respectively the next descriptor, it
\* does not fail, the skipped process or descriptor is not reported, and every
\* process that is there for the listing to reach is still examined.
C6_Inv ==
  /\ \A p \in skipped : p \notin ReportedPids
  /\ \A i \in 1..Len(reported) : <<reported[i].pid, reported[i].fd>> \notin linkFailed
  /\ (ScanReturned /\ procfsUp) => scanResult = ResOk
  /\ (ScanOver /\ "entry" \notin failed) =>
        \A p \in Pids : (alive[p] /\ p \notin touched) => p \in EnumeratedPids

C6_DirFailureStep ==
  (pc = "fd_open" /\ pc' # pc /\ ~(alive[curPid] /\ readable[curPid]))
     => (pc' = "proc_next" /\ reported' = reported /\ scanResult' = scanResult)

C6_LinkFailureStep ==
  (pc = "read_link" /\ pc' # pc /\ read_link(curPid, curFd) = None)
     => (pc' = "fd_next" /\ reported' = reported /\ scanResult' = scanResult)

\* C6: the invariant above in every state, and each failed listing or failed
\* link resolution is a step to the next process, respectively descriptor.
C6_RacesAreSkipped ==
  /\ []C6_Inv
  /\ [][C6_DirFailureStep]_vars
  /\ [][C6_LinkFailureStep]_vars

C6_Witness ==
  /\ pc = "done"
  /\ scanResult = ResOk
  /\ \E p \in skipped :
       /\ p \in touched
       /\ ~alive[p]
       /\ \E i \in 1..Len(reported) : reported[i].pid > p

HoldsUring(p) == \E f \in Fds : fdTable[p][f] = URING_PATTERN

FirstUring(p) ==
  CHOOSE f \in Fds :
    fdTable[p][f] = URING_PATTERN /\ \A g \in 1..(f - 1) : fdTable[p][g] # URING_PATTERN

HeldThroughout(p) == alive[p] /\ p \notin touched /\ HoldsUring(p)

ReportedOnceWithFirst(p) ==
  /\ TimesReported(p) = 1
  /\ \A i \in 1..Len(reported) : reported[i].pid = p => reported[i].fd = FirstUring(p)

\* C7 as stated: every process that holds an io_uring descriptor throughout the
\* scan is reported exactly once, with its first matching descriptor.
C7_Original ==
  (ScanReturned /\ scanResult = ResOk) =>
     \A p \in Pids : HeldThroughout(p) => ReportedOnceWithFirst(p)

\* C7 (amended): a process that holds an io_uring descriptor throughout the
\* scan, whose fd directory and links the detector may read, and which the
\* /proc listing reaches without a listing error, is reported exactly once,
\* with the first matching descriptor in descriptor order; no process is
\* reported twice, and after a match the fd loop is left (break).
C7_Inv ==
  /\ \A p \in Pids : TimesReported(p) <= 1
  /\ (ScanReturned /\ scanResult = ResOk /\ "entry" \notin failed) =>
        \A p \in Pids : (HeldThroughout(p) /\ readable[p]) => ReportedOnceWithFirst(p)

C7_BreakStep ==
  (pc = "report" /\ pc' # pc) => (pc' = "proc_next" /\ fdPos' = fdPos)

\* C7 (amended): the invariant above in every state, and every report is
\* followed by the next process, not by the next descriptor.
C7_FirstMatchOnce == []C7_Inv /\ [][C7_BreakStep]_vars

C7_Witness ==
  /\ pc = "done"
  /\ scanResult = ResOk
  /\ \E p \in Pids :
       /\ HeldThroughout(p) /\ readable[p]
       /\ \A f \in Fds : fdTable[p][f] = URING_PATTERN
       /\ reported = <<[pid |-> p, fd |-> 1]>>

\* C8: check_io_uring_usage returns an error exactly when read_dir("/proc")
\* fails; whatever else fails (a listing item, an fd directory, a link, a
\* metadata file), it returns Ok, with or without reports.
C8_OnlyRootListingIsFatal ==
  ScanReturned =>
    /\ scanResult.tag = "Err" <=> ~procfsUp
    /\ scanResult.tag # "Err" => scanResult = ResOk
    /\ scanResult.tag = "Err" => (reported = <<>> /\ enumerated = <<>>)

C8_Witness ==
  /\ pc = "done"
  /\ scanResult = ResOk
  /\ mainResult = ResOk
  /\ skipped # {}
  /\ failed = {"meta", "entry"}

\* C9: each field of the ProcessInfo depends on its own read only: a failed
\* read leaves its field absent, and a read that succeeded is not suppressed
\* by the failure of another one (the memory footprint is there whenever the
\* status text was read, also when the maps text was not).
C9_FieldsIndependent ==
  pc = "report" =>
    /\ reads.comm = None <=> info.name = UNKNOWN_NAME
    /\ reads.exe = None <=> info.exe_path = None
    /\ reads.cmdline = None => info.cmdline = None
    /\ (reads.cmdline # None /\ curPid % 2 = 1) => info.cmdline # None
    /\ reads.maps = None => ~info.is_in_memory
    /\ (reads.maps # None /\ curPid % 2 = 1) => info.is_in_memory
    /\ reads.status = None <=> info.memory_status = None

\* the run's outcomes
Unsupported ==
  probeResult.tag = "None" /\ mainResult = ResOk /\ scanCalls = 0

ProbeError ==
  probeResult.tag = "Err" /\ mainResult = probeResult /\ scanCalls = 0

ProcTableUnavailable ==
  probeResult.tag = "Some" /\ scanResult.tag = "Err" /\ mainResult = scanResult

ScanCompleted ==
  probeResult.tag = "Some" /\ scanResult = ResOk /\ mainResult = ResOk

OneOutcome ==
  Cardinality({o \in 1..4 : \/ o = 1 /\ Unsupported
                            \/ o = 2 /\ ProbeError
                            \/ o = 3 /\ ProcTableUnavailable
                            \/ o = 4 /\ ScanCompleted}) = 1

\* C10: every run of the detector ends, whatever the other processes do
\* between its reads, and it ends in exactly one of: unsupported, a probe
\* error, /proc not listable, a completed scan.
C10_AlwaysCompletes == <>[](pc = "done" /\ OneOutcome)

C10_Witness ==
  /\ pc = "done"
  /\ ScanCompleted
  /\ \E p \in touched : ~alive[p] /\ (p \in skipped \/ \E f \in Fds : <<p, f>> \in linkFailed)
\* the blob without its leading and trailing null bytes and with every run of
\* null bytes reduced to one
KeepsChar(b, i) ==
  \/ b[i] # NUL
  \/ /\ i > 1
     /\ b[i - 1] # NUL
     /\ \E j \in (i + 1)..Len(b) : b[j] # NUL

RECURSIVE SqueezeFrom(_, _)
SqueezeFrom(b, i) ==
  IF i > Len(b) THEN <<>>
  ELSE (IF KeepsChar(b, i) THEN <<b[i]>> ELSE <<>>) \o SqueezeFrom(b, i + 1)

RECURSIVE JoinNul(_)
JoinNul(args) ==
  IF args = <<>> THEN <<>>
  ELSE IF Len(args) = 1 THEN args[1]
  ELSE args[1] \o <<NUL>> \o JoinNul(Tail(args))

\* C11: the command line of a blob is the ordered sequence of its non-empty
\* null-separated fragments: no argument is empty or holds a null byte, and
\* the arguments joined by null bytes are the blob without its redundant null
\* bytes ("foo\0bar\0" gives ["foo", "bar"]); a blob without any other
\* character than null bytes, and an unreadable blob, give None, never Some
\* of an empty sequence.
C11_CmdlineFragments ==
  pc = "report" =>
    /\ info.cmdline # Some(<<>>)
    /\ reads.cmdline = None => info.cmdline = None
    /\ reads.cmdline # None =>
         LET b == reads.cmdline[1]
         IN  /\ (\A i \in 1..Len(b) : b[i] = NUL) => info.cmdline = None
             /\ (\E i \in 1..Len(b) : b[i] # NUL) =>
                  /\ info.cmdline # None
                  /\ \A k \in 1..Len(info.cmdline[1]) :
                       /\ info.cmdline[1][k] # <<>>
                       /\ \A i \in 1..Len(info.cmdline[1][k]) : info.cmdline[1][k][i] # NUL
                  /\ JoinNul(info.cmdline[1]) = SqueezeFrom(b, 1)
             /\ b = FooBarBlob =>
                  info.cmdline = Some(<< <<"f", "o", "o">>, <<"b", "a", "r">> >>)

C11_Witness ==
  /\ pc = "report"
  /\ reads.cmdline = Some(FooBarBlob)
  /\ info.cmdline = Some(<< <<"f", "o", "o">>, <<"b", "a", "r">> >>)
\* what the claim expects of a VmRSS or VmSize line: the number on a well
\* formed line, nothing for a missing line or a line without a number
GoodRss == <<"V", "m", "R", "S", "S", ":", " ", " ", " ", " ", "1", "2", "3", "4", " ", "k", "B", "\n">>
ZeroRss == <<"V", "m", "R", "S", "S", ":", "\t", "0", " ", "k", "B", "\n">>
GoodSize == <<"V", "m", "S", "i", "z", "e", ":", " ", " ", " ", " ", "1", "2", "3", "4", " ", "k", "B", "\n">>

ExpectedRss(line) ==
  IF line = GoodRss THEN Some(<<"1", "2", "3", "4">>)
  ELSE IF line = ZeroRss THEN Some(<<"0">>)
  ELSE None

ExpectedSize(line) ==
  IF line = GoodSize THEN Some(<<"1", "2", "3", "4">>)
  ELSE None

ExpectedFootprint(a, b) ==
  Some([virtual_memory |-> ExpectedSize(b), resident_memory |-> ExpectedRss(a)])

\* C12: a status text with the line "VmRSS:    1234 kB" gives resident memory
\* 1234, and likewise VmSize gives virtual memory; a missing line, or a line
\* without a number on it, gives an absent sub-field and never zero; each
\* sub-field depends on its own line only, whatever the other line and the
\* order of the two.
C12_FootprintParsing ==
  pc = "report" =>
    \A h \in {<<>>, NameLine}, a \in RssLines, b \in SizeLines :
      /\ reads.status = Some(StatusTextOf(h, a, b)) /\ reads.maps # None
           => info.memory_status = ExpectedFootprint(a, b)
      /\ reads.status = Some(StatusTextOf(h, b, a)) /\ reads.maps # None
           => info.memory_status = ExpectedFootprint(a, b)

C12_Witness ==
  /\ pc = "report"
  /\ reads.status = Some(StatusTextOf(NameLine, GoodRss, <<"V", "m", "S", "i", "z", "e", ":", "\t", "n", "/", "a", " ", "k", "B", "\n">>))
  /\ info.memory_status # None
  /\ DecimalValue(info.memory_status[1].resident_memory[1]) = 1234
  /\ info.memory_status[1].virtual_memory = None
\* the name is a decimal numeral, as parse::<u32> reads it, of a number above zero
IsPositiveInteger(name) ==
  /\ ParsePid(name) # None
  /\ ParsePid(name)[1] # <<"0">>

\* C13: an entry of /proc is treated as a process id, and its descriptor
\* directory read, only if its name parses as a positive integer; any other
\* entry, the name "0" among them, is passed over.
C13_OnlyPositiveIntegers ==
  /\ pc = "fd_open" => IsPositiveInteger(procTable[procPos])
  /\ \A i \in 1..Len(enumerated) : enumerated[i] > 0
  /\ \A p \in skipped : p > 0
DeletedOnly == <<"0", "-", "1", " ", "/", "t", "m", "p", "/", "f", " ", "(", "d", "e", "l", "e", "t", "e", "d", ")", "\n">>

\* C14: the memory-backed heuristic is true exactly when the mapping text
\* was read and one of its lines holds "memfd:", "anon_inode:" or
\* "(deleted)"; one marker is enough, a marker cut short or broken over two
\* lines is none, and an unreadable mapping text gives false.
C14_HeuristicIffMarker ==
  pc = "report" =>
    /\ reads.maps = None => info.is_in_memory = FALSE
    /\ \A a \in MarkedLines \cup PlainLines, b \in MarkedLines \cup PlainLines :
         reads.maps = Some(MapsTextOf(a, b)) =>
           (info.is_in_memory <=> (a \in MarkedLines \/ b \in MarkedLines))

C14_Witness ==
  /\ pc = "report"
  /\ reads.maps = Some(MapsTextOf(<<"0", "-", "1", " ", "/", "b", "i", "n", "/", "p", "\n">>, DeletedOnly))
  /\ info.is_in_memory = TRUE
\* what is printed of a process none of whose files could be read
C15_NothingKnown ==
  [ name          |-> <<"<", "u", "n", "k", "n", "o", "w", "n", ">">>,
    exe_path      |-> None,
    cmdline       |-> None,
    is_in_memory  |-> FALSE,
    memory_status |-> None ]

\* the matching descriptor was found, the process has exited since, and the
\* report is about to be written
ExitedBeforeExtraction == pc = "report" /\ ~alive[curPid]

C15_Inv ==
  /\ ExitedBeforeExtraction =>
       /\ reads = NoReads
       /\ info = C15_NothingKnown
       /\ TimesReported(curPid) = 0
  /\ \A p \in Pids : TimesReported(p) <= 1

C15_ReportStep ==
  (ExitedBeforeExtraction /\ pc' # pc) =>
     /\ reported' = Append(reported, [pid |-> curPid, fd |-> curFd])
     /\ pc' = "proc_next"
     /\ procPos' = procPos

\* C15: when a process exits between the match of its descriptor and the
\* extraction of its metadata, every read fails and the process is reported
\* all the same, once, with the name "<unknown>", no executable path, no
\* command line, no memory footprint and the heuristic false; the scan then
\* goes on with the next entry of /proc.
C15_ExitedStillReported == []C15_Inv /\ [][C15_ReportStep]_vars

C15_Witness ==
  /\ ExitedBeforeExtraction
  /\ curPid \in touched
  /\ curPid < MaxPid
  /\ info.name = C15_NothingKnown.name
  /\ reported = <<>>
====
